---- MODULE Spec2Model ----
(***************************************************************************)
(* Model of src/api/hello.ts: the serverless `handler` (lines 5-101) and   *)
(* the class AliExpressScraper (lines 106-257).                            *)
(*                                                                         *)
(* Every `await` of the source is a suspension point.  A location (pc) is  *)
(* the awaited operation that is in flight; one action of the model is the *)
(* settling of that operation (it resolves or it rejects) followed by the  *)
(* synchronous code that runs up to the next `await`.                      *)
(*                                                                         *)
(* Texts (innerText, attribute values) are sequences of one-character      *)
(* strings.  The field scraped_at of a record (a wall-clock timestamp) is  *)
(* left out of the records, and the search URL is not followed: goto is    *)
(* an operation that resolves or rejects.                                  *)
(***************************************************************************)
EXTENDS Integers, Sequences, FiniteSets, TLC

(***************************************************************************)
(* Bounds of the model.                                                    *)
(***************************************************************************)
MaxPages == 3          \* largest options.maxPages explored (0 is explored too)
MaxRunItems == 1       \* catalog items per page served during a paginated run
MaxItems == 3          \* catalog items per page for single-page extraction

(***************************************************************************)
(* JavaScript values.                                                      *)
(***************************************************************************)
\* null / undefined for an optional number.  Numbers of the model are >= 0.
Null == -1

\* JavaScript truthiness of an optional number: null, undefined and 0 are falsy.
Truthy(n) == n # Null /\ n # 0

Digits == <<"0", "1", "2", "3", "4", "5", "6", "7", "8", "9">>

IsDigit(c) == \E i \in 1..10 : Digits[i] = c

DigitVal(c) == (CHOOSE i \in 1..10 : Digits[i] = c) - 1

\* a replacement that removes nothing
StripNothing(t) == t

\* text.replace(/\D/g, '')
StripNonDigits(t) == SelectSeq(t, IsDigit)

NaN == [nan |-> TRUE, val |-> 0]

RECURSIVE DecimalValue(_)
DecimalValue(t) ==
    IF t = <<>> THEN 0
    ELSE 10 * DecimalValue(SubSeq(t, 1, Len(t) - 1)) + DigitVal(t[Len(t)])

RECURSIVE DigitPrefix(_)
DigitPrefix(t) ==
    IF t = <<>> \/ ~IsDigit(Head(t)) THEN <<>>
    ELSE <<Head(t)>> \o DigitPrefix(Tail(t))

\* parseInt(t, 10) for a text without sign or leading white space: the value
\* of the longest prefix of decimal digits, NaN when that prefix is empty.
ParseInt(t) ==
    IF DigitPrefix(t) = <<>> THEN NaN
    ELSE [nan |-> FALSE, val |-> DecimalValue(DigitPrefix(t))]

\* p || 0 : NaN and 0 are falsy
OrZero(p) == IF p.nan \/ p.val = 0 THEN 0 ELSE p.val

RECURSIVE TrimLeft(_)
TrimLeft(t) == IF t # <<>> /\ Head(t) = " " THEN TrimLeft(Tail(t)) ELSE t

RECURSIVE TrimRight(_)
TrimRight(t) ==
    IF t # <<>> /\ t[Len(t)] = " " THEN TrimRight(SubSeq(t, 1, Len(t) - 1)) ELSE t

\* text.trim()
Trim(t) == TrimLeft(TrimRight(t))

NA == <<"N", "/", "A">>

Zero == <<"0">>

(***************************************************************************)
(* The rendered page: catalog items (.product-item elements) in document   *)
(* order.  A sub-element or attribute is present with a text, or absent.   *)
(***************************************************************************)
NoEl == [present |-> FALSE]

El(t) == [present |-> TRUE, innerText |-> t]

Item(id, title, price, orders, rating, link) ==
    [id |-> id, title |-> title, price |-> price, orders |-> orders,
     rating |-> rating, link |-> link]

Item10 ==
    Item(El(<<"p", "1">>), El(<<" ", "T", "V", " ">>), El(<<"$", "9">>),
         El(<<"1", "0">>), El(<<"4", ".", "5">>), El(<<"/", "a">>))

Item60 ==
    Item(El(<<"p", "2">>), El(<<"T", "V">>), NoEl,
         El(<<" ", "6", "0", " ", "s", "o", "l", "d">>), NoEl, El(<<"/", "b">>))

Item200 ==
    Item(El(<<>>), NoEl, El(<<"$", "7">>),
         El(<<"2", "0", "0", "+">>), El(<<"5">>), NoEl)

ItemBare == Item(NoEl, NoEl, NoEl, NoEl, NoEl, NoEl)

ItemNoDigits ==
    Item(El(<<"p", "5">>), El(<<"T", "V">>), El(<<"$", "1">>),
         El(<<"N", "/", "A">>), El(<<"3">>), El(<<"/", "e">>))

Items == {Item10, Item60, Item200, ItemBare, ItemNoDigits}

\* every page of at most n catalog items
DomsUpTo(n) == UNION {[1..k -> Items] : k \in 0..n}

(***************************************************************************)
(* page.evaluate callbacks.                                                *)
(***************************************************************************)
\* a default that leaves the field empty when the element is absent
TextOrEmpty(el, sentinel) == IF el.present THEN Trim(el.innerText) ELSE <<>>

\* el ? el.innerText.trim() : sentinel
TextOr(el, sentinel) == IF el.present THEN Trim(el.innerText) ELSE sentinel

\* el.getAttribute('data-product-id') || 'N/A' : null and '' are falsy
IdOf(el) ==
    IF el.id.present /\ el.id.innerText # <<>> THEN el.id.innerText ELSE NA

\* the object literal of lines 64-72 and 193-201
RecordOf(el) ==
    [id |-> IdOf(el),
     title |-> TextOr(el.title, NA),
     price |-> TextOr(el.price, NA),
     orderCount |-> TextOr(el.orders, Zero),
     rating |-> TextOr(el.rating, NA),
     link |-> IF el.link.present THEN el.link.innerText ELSE NA]

\* Array.from(productElements).map(el => ({...}))
RecordsOf(els) == [i \in 1..Len(els) |-> RecordOf(els[i])]

\* line 203: the order count the filter callback of the class derives
ScraperOrderCount(product) == OrZero(ParseInt(StripNonDigits(product.orderCount)))

\* a filter callback that compares with > in place of >=
ScraperKeepsLoose(product, minOrderCount) ==
    LET orderCount == ScraperOrderCount(product)
    IN  IF Truthy(minOrderCount) THEN orderCount > minOrderCount ELSE TRUE

\* lines 203-204: the filter callback of the class
ScraperKeeps(product, minOrderCount) ==
    LET orderCount == ScraperOrderCount(product)
    IN  IF Truthy(minOrderCount) THEN orderCount >= minOrderCount ELSE TRUE

\* lines 185-206: page.evaluate of scrapeProducts on a page `dom`
EvaluateScraper(dom, minOrderCount) ==
    LET Keep(p) == ScraperKeeps(p, minOrderCount)
    IN  SelectSeq(RecordsOf(dom), Keep)

\* lines 55-57: the order count the handler derives
HandlerOrderCount(el) ==
    IF el.orders.present
    THEN OrZero(ParseInt(StripNonDigits(el.orders.innerText)))
    ELSE 0

\* a test that also drops an item whose count equals the threshold
HandlerDropsAtThreshold(el, minOrderCount) ==
    Truthy(minOrderCount) /\ HandlerOrderCount(el) <= minOrderCount

\* lines 60-62: the handler returns null for an item iff this holds
HandlerDrops(el, minOrderCount) ==
    Truthy(minOrderCount) /\ HandlerOrderCount(el) < minOrderCount

\* lines 47-74: page.evaluate of the handler on a page `dom`
EvaluateHandler(dom, minOrderCount) ==
    LET Kept(el) == ~HandlerDrops(el, minOrderCount)
    IN  RecordsOf(SelectSeq(dom, Kept))

(***************************************************************************)
(* SearchSpec / this.options.                                              *)
(***************************************************************************)
DefaultMaxPages == 3

\* lines 110-119, the fields the model follows
defaultOptions ==
    [searchTerm |-> <<>>, minPrice |-> Null, maxPrice |-> Null,
     minOrderCount |-> Null, maxPages |-> DefaultMaxPages]

\* line 120: { ...this.defaultOptions, ...options }
MergeOptions(given) ==
    [f \in DOMAIN defaultOptions |->
        IF f \in DOMAIN given THEN given[f] ELSE defaultOptions[f]]

\* the data-model invariants of a SearchSpec (spec section 3)
ValidSpec(o) ==
    /\ o.searchTerm # <<>>
    /\ o.maxPages >= 1
    /\ (o.minPrice # Null /\ o.maxPrice # Null) => o.minPrice <= o.maxPrice

\* options a caller passes to the constructor
FullOptions ==
    [searchTerm : {<<>>, <<"t", "v">>}, minPrice : {Null, 2}, maxPrice : {Null, 1},
     minOrderCount : {Null, 50}, maxPages : 0..MaxPages]

\* a search term and no price bound
Plain(g) == g.searchTerm # <<>> /\ g.minPrice = Null /\ g.maxPrice = Null

Restrict(f, D) == [x \in D |-> f[x]]

\* every combination of the fields for maxPages <= 1, plain options for larger
\* maxPages, and options that leave maxPages to its default
CallerOptions ==
    {g \in FullOptions : g.maxPages <= 1 \/ Plain(g)}
      \cup {Restrict(g, DOMAIN g \ {"maxPages"}) :
               g \in {h \in FullOptions : h.maxPages = 1 /\ Plain(h)}}

SmallOptions ==
    {g \in FullOptions : Plain(g) /\ g.minOrderCount = 50 /\ g.maxPages \in 1..2}

(***************************************************************************)
(* State.                                                                  *)
(***************************************************************************)
Runs == {1, 2}         \* calls of scrapeProducts; session r is the one run r launches

Objects == {1, 2}      \* AliExpressScraper objects

NoSession == 0

\* the items the site serves during paginated runs
RunItems == {Item10, Item60}

RunDoms == UNION {[1..k -> RunItems] : k \in 0..MaxRunItems}

VARIABLES
    options,      \* this.options of each object
    browser,      \* this.browser of each object: a session or NoSession
    page,         \* this.page of each object: the page of a session, or NoSession
    pc,           \* per run: the awaited operation in flight
    obj,          \* per run: the object scrapeProducts was called on
    pageNum,      \* per run: the loop counter (0 before the loop)
    products,     \* per run: the accumulation buffer
    nextBtn,      \* per run: the last result of page.$('.next-page') was non-null
    seen,         \* per run (history): the page contents of the completed evaluates
    extracts,     \* per run (history): page.evaluate calls issued
    clicks,       \* per run (history): click calls issued
    target,       \* per run (history): the session the in-flight operation was issued on
    foreign,      \* per run (history): an operation was issued on another run's session
    caught,       \* per run (history): the operation whose rejection the catch block caught
    thrown,       \* per run: the operation whose rejection propagated to the caller
    exit,         \* per run (history): how the pagination loop was left
    launched,     \* per session: puppeteer.launch resolved with it
    closeCalls,   \* per session (history): invocations of close()
    closed,       \* per session: a close() resolved
    loc,          \* per session: the result page it displays
    siteLast,     \* the site: the first result page without a next-page control
    deadline,     \* the caller's deadline has elapsed
    hpc,          \* handler: the awaited operation in flight
    req,          \* handler: the request (method, body)
    hopts,        \* handler: the destructured options of lines 12-18
    hLaunched,    \* handler: puppeteer.launch resolved (const browser)
    hCloseCalls,  \* handler (history): invocations of browser.close()
    hClosed,      \* handler: browser.close() resolved
    hProducts,    \* handler: const products
    responses,    \* handler: the responses sent, in order
    hThrown,      \* handler: an exception left the handler
    extraction,   \* one Extract cycle on its own: page, threshold, result
    build,        \* one construction of the search URL on its own: options, result
    derive,       \* one derivation of an order count on its own: text, result
    exporting,    \* one call of exportToJson: products, location, report
    net           \* the request interception of one page: listeners, requests

objVars == <<options, browser, page>>

runVars == <<pc, obj, pageNum, products, nextBtn, seen, extracts, clicks, target,
             foreign, caught, thrown, exit>>

sessionVars == <<launched, closeCalls, closed, loc>>

handlerVars ==
    <<hpc, req, hopts, hLaunched, hCloseCalls, hClosed, hProducts, responses, hThrown>>

pureVars == <<build, derive, exporting, net>>

restVars == <<handlerVars, extraction, pureVars>>

vars == <<objVars, runVars, sessionVars, siteLast, deadline, restVars>>

Min(a, b) == IF a < b THEN a ELSE b

RECURSIVE Flatten(_)
Flatten(ss) == IF ss = <<>> THEN <<>> ELSE Head(ss) \o Flatten(Tail(ss))

InitCommon ==
    /\ browser = [o \in Objects |-> NoSession]
    /\ page = [o \in Objects |-> NoSession]
    /\ pageNum = [r \in Runs |-> 0]
    /\ products = [r \in Runs |-> <<>>]
    /\ nextBtn = [r \in Runs |-> FALSE]
    /\ seen = [r \in Runs |-> <<>>]
    /\ extracts = [r \in Runs |-> 0]
    /\ clicks = [r \in Runs |-> 0]
    /\ target = [r \in Runs |-> NoSession]
    /\ foreign = [r \in Runs |-> FALSE]
    /\ caught = [r \in Runs |-> "none"]
    /\ thrown = [r \in Runs |-> "none"]
    /\ exit = [r \in Runs |-> "none"]
    /\ launched = [s \in Runs |-> FALSE]
    /\ closeCalls = [s \in Runs |-> 0]
    /\ closed = [s \in Runs |-> FALSE]
    /\ loc = [s \in Runs |-> 1]
    /\ deadline = FALSE

NoRequest == [method |-> "none", hasBody |-> FALSE, body |-> <<>>]

NoExtraction == [dom |-> <<>>, minOrderCount |-> Null, by |-> "none", out |-> <<>>]

NoBuild == [options |-> defaultOptions, by |-> "off", url |-> <<>>]

NoDerive == [el |-> NoEl, by |-> "off", count |-> 0]

NoExport == [options |-> defaultOptions, products |-> <<>>, pc |-> "off",
             jsonOutput |-> <<>>, written |-> FALSE, returned |-> FALSE,
             result |-> <<>>]

NoNet == [pc |-> "off", intercepting |-> FALSE, listeners |-> 0, requests |-> <<>>]

\* the parts of the model that are not in use
PureIdle ==
    /\ build = NoBuild
    /\ derive = NoDerive
    /\ exporting = NoExport
    /\ net = NoNet

\* the locals of the handler before it runs
HandlerFresh ==
    /\ hopts = <<>>
    /\ hLaunched = FALSE
    /\ hCloseCalls = 0
    /\ hClosed = FALSE
    /\ hProducts = <<>>
    /\ responses = <<>>
    /\ hThrown = FALSE

\* one run, on an object constructed with any caller options
Init ==
    /\ InitCommon
    /\ \E g \in CallerOptions :
          options = [o \in Objects |-> IF o = 1 THEN MergeOptions(g) ELSE defaultOptions]
    /\ pc = [r \in Runs |-> IF r = 1 THEN "start" ELSE "off"]
    /\ obj = [r \in Runs |-> r]
    /\ siteLast \in 1..(MaxPages + 1)
    /\ hpc = "off"
    /\ req = NoRequest
    /\ HandlerFresh
    /\ extraction = NoExtraction
    /\ PureIdle

(***************************************************************************)
(* AliExpressScraper.scrapeProducts (lines 170-225) with initialize        *)
(* (lines 123-152) inlined at its call.                                    *)
(***************************************************************************)
\* line 184: the loop condition
LoopCond(n, maxPages) == n <= maxPages

\* Advance conditions that differ from line 211: the control is not tested;
\* the counter is compared with <=; the counter is compared with maxPages - 1
ShouldAdvanceIgnoringControl(btn, n, maxPages) == n < maxPages

ShouldAdvanceOneMore(btn, n, maxPages) == btn /\ n <= maxPages

ShouldAdvanceOneLess(btn, n, maxPages) == btn /\ n < maxPages - 1

\* line 211: the condition of the Advance branch
ShouldAdvance(btn, n, maxPages) == btn /\ n < maxPages

\* an accumulation that keeps the last page only (products = pageProducts)
PushReplacing(acc, pageProducts) == pageProducts

\* an append that skips the records the buffer already holds
PushDistinct(acc, pageProducts) ==
    LET New(p) == \A i \in 1..Len(acc) : acc[i] # p
    IN  acc \o SelectSeq(pageProducts, New)

\* line 208: products.push(...pageProducts)
Push(acc, pageProducts) == acc \o pageProducts

\* an operation is issued by run r on session s
Issue(r, s) ==
    /\ target' = [target EXCEPT ![r] = s]
    /\ foreign' = [foreign EXCEPT ![r] = @ \/ s # r]

\* line 171: a rejection inside initialize is outside the try statement and
\* propagates to the caller of scrapeProducts
InitializeRejects(r, op) ==
    /\ pc' = [pc EXCEPT ![r] = "done"]
    /\ thrown' = [thrown EXCEPT ![r] = op]
    /\ UNCHANGED <<objVars, obj, pageNum, products, nextBtn, seen, extracts, clicks,
                   target, foreign, caught, exit, closeCalls, closed, loc, siteLast,
                   deadline, restVars>>

\* lines 218-222: the loop is left (`how`), after a rejection of `op` caught by
\* the catch block or normally (op = "none"); the finally block issues
\* this.browser.close()
Finally(r, op, how) ==
    /\ pc' = [pc EXCEPT ![r] = "close"]
    /\ caught' = [caught EXCEPT ![r] = op]
    /\ exit' = [exit EXCEPT ![r] = how]
    /\ Issue(r, browser[obj[r]])
    /\ closeCalls' = [closeCalls EXCEPT ![browser[obj[r]]] = @ + 1]

\* a rejection inside the try statement
TryRejects(r, op) ==
    /\ pc[r] = op
    /\ Finally(r, op, "error")
    /\ UNCHANGED <<objVars, obj, pageNum, products, nextBtn, seen, extracts, clicks,
                   thrown, launched, closed, loc, siteLast, deadline, restVars>>

\* line 184: the loop condition is tested with the counter at n; the body
\* starts by issuing page.evaluate (line 185)
EnterLoopBody(r, n) ==
    /\ pageNum' = [pageNum EXCEPT ![r] = n]
    /\ IF LoopCond(n, options[obj[r]].maxPages)
       THEN /\ pc' = [pc EXCEPT ![r] = "evaluate"]
            /\ extracts' = [extracts EXCEPT ![r] = @ + 1]
            /\ Issue(r, page[obj[r]])
            /\ UNCHANGED <<caught, exit, closeCalls>>
       ELSE /\ Finally(r, "none", "loopCond")
            /\ UNCHANGED extracts

\* line 170: scrapeProducts is called; initialize issues puppeteer.launch
ScrapeProducts(r) ==
    /\ pc[r] = "start"
    /\ pc' = [pc EXCEPT ![r] = "launch"]
    /\ UNCHANGED <<objVars, obj, pageNum, products, nextBtn, seen, extracts, clicks,
                   target, foreign, caught, thrown, exit, sessionVars, siteLast,
                   deadline, restVars>>

\* lines 124-137: launch resolves with session r; this.browser.newPage() is issued
LaunchOk(r) ==
    /\ pc[r] = "launch"
    /\ launched' = [launched EXCEPT ![r] = TRUE]
    /\ browser' = [browser EXCEPT ![obj[r]] = r]
    /\ pc' = [pc EXCEPT ![r] = "newPage"]
    /\ Issue(r, r)
    /\ UNCHANGED <<options, page, obj, pageNum, products, nextBtn, seen, extracts,
                   clicks, caught, thrown, exit, closeCalls, closed, loc, siteLast,
                   deadline, restVars>>

LaunchFail(r) ==
    /\ pc[r] = "launch"
    /\ InitializeRejects(r, "launch")
    /\ UNCHANGED launched

\* lines 137-139: newPage resolves with the page of the session it was issued
\* on; this.page.setUserAgent is issued
NewPageOk(r) ==
    /\ pc[r] = "newPage"
    /\ page' = [page EXCEPT ![obj[r]] = target[r]]
    /\ pc' = [pc EXCEPT ![r] = "setUserAgent"]
    /\ Issue(r, target[r])
    /\ UNCHANGED <<options, browser, obj, pageNum, products, nextBtn, seen, extracts,
                   clicks, caught, thrown, exit, sessionVars, siteLast, deadline, restVars>>

NewPageFail(r) ==
    /\ pc[r] = "newPage"
    /\ InitializeRejects(r, "newPage")
    /\ UNCHANGED launched

\* lines 139-141: this.page.setRequestInterception is issued
SetUserAgentOk(r) ==
    /\ pc[r] = "setUserAgent"
    /\ pc' = [pc EXCEPT ![r] = "setRequestInterception"]
    /\ Issue(r, page[obj[r]])
    /\ UNCHANGED <<objVars, obj, pageNum, products, nextBtn, seen, extracts, clicks,
                   caught, thrown, exit, sessionVars, siteLast, deadline, restVars>>

SetUserAgentFail(r) ==
    /\ pc[r] = "setUserAgent"
    /\ InitializeRejects(r, "setUserAgent")
    /\ UNCHANGED launched

\* lines 141-152 and 171-172: the request listener is registered, initialize
\* returns and buildSearchURL is awaited
SetRequestInterceptionOk(r) ==
    /\ pc[r] = "setRequestInterception"
    /\ pc' = [pc EXCEPT ![r] = "buildSearchURL"]
    /\ UNCHANGED <<objVars, obj, pageNum, products, nextBtn, seen, extracts, clicks,
                   target, foreign, caught, thrown, exit, sessionVars, siteLast,
                   deadline, restVars>>

SetRequestInterceptionFail(r) ==
    /\ pc[r] = "setRequestInterception"
    /\ InitializeRejects(r, "setRequestInterception")
    /\ UNCHANGED launched

\* lines 172-180: products = [] and this.page.goto is issued
BuildSearchURLDone(r) ==
    /\ pc[r] = "buildSearchURL"
    /\ products' = [products EXCEPT ![r] = <<>>]
    /\ pc' = [pc EXCEPT ![r] = "goto"]
    /\ Issue(r, page[obj[r]])
    /\ UNCHANGED <<objVars, obj, pageNum, nextBtn, seen, extracts, clicks, caught,
                   thrown, exit, sessionVars, siteLast, deadline, restVars>>

\* lines 177-182: this.page.waitForSelector is issued
GotoOk(r) ==
    /\ pc[r] = "goto"
    /\ pc' = [pc EXCEPT ![r] = "waitForSelector"]
    /\ Issue(r, page[obj[r]])
    /\ UNCHANGED <<objVars, obj, pageNum, products, nextBtn, seen, extracts, clicks,
                   caught, thrown, exit, sessionVars, siteLast, deadline, restVars>>

GotoFail(r) == TryRejects(r, "goto")

\* lines 182-185: the loop starts with pageNum = 1
WaitForSelectorOk(r) ==
    /\ pc[r] = "waitForSelector"
    /\ EnterLoopBody(r, 1)
    /\ UNCHANGED <<objVars, obj, products, nextBtn, seen, clicks, thrown, launched,
                   closed, loc, siteLast, deadline, restVars>>

WaitForSelectorFail(r) == TryRejects(r, "waitForSelector")

\* lines 185-210: evaluate resolves with the filtered records of the page the
\* site served; they are appended and this.page.$('.next-page') is issued
EvaluateOk(r) ==
    /\ pc[r] = "evaluate"
    /\ \E dom \in RunDoms :
          /\ seen' = [seen EXCEPT ![r] = Append(@, dom)]
          /\ products' = [products EXCEPT ![r] =
                 Push(@, EvaluateScraper(dom, options[obj[r]].minOrderCount))]
    /\ pc' = [pc EXCEPT ![r] = "query"]
    /\ Issue(r, page[obj[r]])
    /\ UNCHANGED <<objVars, obj, pageNum, nextBtn, extracts, clicks, caught, thrown,
                   exit, sessionVars, siteLast, deadline, restVars>>

EvaluateFail(r) == TryRejects(r, "evaluate")

\* lines 210-216: $ resolves with the next-page control of the displayed page,
\* or null; either the click is issued or the loop is left by break
QueryOk(r) ==
    /\ pc[r] = "query"
    /\ LET btn == loc[target[r]] < siteLast
       IN  /\ nextBtn' = [nextBtn EXCEPT ![r] = btn]
           /\ IF ShouldAdvance(btn, pageNum[r], options[obj[r]].maxPages)
              THEN /\ pc' = [pc EXCEPT ![r] = "click"]
                   /\ clicks' = [clicks EXCEPT ![r] = @ + 1]
                   /\ Issue(r, target[r])
                   /\ UNCHANGED <<caught, exit, closeCalls>>
              ELSE /\ Finally(r, "none", IF btn THEN "maxPages" ELSE "noNext")
                   /\ UNCHANGED clicks
    /\ UNCHANGED <<objVars, obj, pageNum, products, seen, extracts, thrown, launched,
                   closed, loc, siteLast, deadline, restVars>>

QueryFail(r) == TryRejects(r, "query")

\* a click after which the next Extract cycle starts without the settling wait
ClickOkWithoutWait(r) ==
    /\ pc[r] = "click"
    /\ loc' = [loc EXCEPT ![target[r]] = Min(@ + 1, siteLast)]
    /\ EnterLoopBody(r, pageNum[r] + 1)
    /\ UNCHANGED <<objVars, obj, products, nextBtn, seen, clicks, thrown, launched,
                   closed, siteLast, deadline, restVars>>

\* lines 212-213: the click resolves, the session displays the next result
\* page; this.page.waitForTimeout is issued
ClickOk(r) ==
    /\ pc[r] = "click"
    /\ loc' = [loc EXCEPT ![target[r]] = Min(@ + 1, siteLast)]
    /\ pc' = [pc EXCEPT ![r] = "waitForTimeout"]
    /\ Issue(r, page[obj[r]])
    /\ UNCHANGED <<objVars, obj, pageNum, products, nextBtn, seen, extracts, clicks,
                   caught, thrown, exit, launched, closeCalls, closed, siteLast,
                   deadline, restVars>>

ClickFail(r) == TryRejects(r, "click")

\* lines 213, 184: the settling wait is over; pageNum++ and the loop condition
WaitForTimeoutOk(r) ==
    /\ pc[r] = "waitForTimeout"
    /\ EnterLoopBody(r, pageNum[r] + 1)
    /\ UNCHANGED <<objVars, obj, products, nextBtn, seen, clicks, thrown, launched,
                   closed, loc, siteLast, deadline, restVars>>

WaitForTimeoutFail(r) == TryRejects(r, "waitForTimeout")

\* lines 221-224: close resolves and products is returned
CloseOk(r) ==
    /\ pc[r] = "close"
    /\ closed' = [closed EXCEPT ![target[r]] = TRUE]
    /\ pc' = [pc EXCEPT ![r] = "done"]
    /\ UNCHANGED <<objVars, obj, pageNum, products, nextBtn, seen, extracts, clicks,
                   target, foreign, caught, thrown, exit, launched, closeCalls, loc,
                   siteLast, deadline, restVars>>

\* line 221: a rejection of close inside finally propagates
CloseFail(r) ==
    /\ pc[r] = "close"
    /\ thrown' = [thrown EXCEPT ![r] = "close"]
    /\ pc' = [pc EXCEPT ![r] = "done"]
    /\ UNCHANGED <<objVars, obj, pageNum, products, nextBtn, seen, extracts, clicks,
                   target, foreign, caught, exit, sessionVars, siteLast, deadline, restVars>>

RunStep(r) ==
        \/ ScrapeProducts(r)
        \/ LaunchOk(r) \/ LaunchFail(r)
        \/ NewPageOk(r) \/ NewPageFail(r)
        \/ SetUserAgentOk(r) \/ SetUserAgentFail(r)
        \/ SetRequestInterceptionOk(r) \/ SetRequestInterceptionFail(r)
        \/ BuildSearchURLDone(r)
        \/ GotoOk(r) \/ GotoFail(r)
        \/ WaitForSelectorOk(r) \/ WaitForSelectorFail(r)
        \/ EvaluateOk(r) \/ EvaluateFail(r)
        \/ QueryOk(r) \/ QueryFail(r)
        \/ ClickOk(r) \/ ClickFail(r)
        \/ WaitForTimeoutOk(r) \/ WaitForTimeoutFail(r)
        \/ CloseOk(r) \/ CloseFail(r)

Next == \E r \in Runs : RunStep(r)

Spec == Init /\ [][Next]_vars

(***************************************************************************)
(* Two calls of scrapeProducts whose awaited steps interleave, on the same *)
(* AliExpressScraper object or on two objects.                             *)
(***************************************************************************)
InitConcurrent ==
    /\ InitCommon
    /\ options \in [Objects -> {MergeOptions(g) : g \in SmallOptions}]
    /\ pc = [r \in Runs |-> "start"]
    /\ obj \in {f \in [Runs -> Objects] : f[1] = 1}
    /\ siteLast \in 1..2
    /\ hpc = "off"
    /\ req = NoRequest
    /\ HandlerFresh
    /\ extraction = NoExtraction
    /\ PureIdle

SpecConcurrent == InitConcurrent /\ [][Next]_vars

(***************************************************************************)
(* A run and the deadline of its caller.  Nothing in the source reads a    *)
(* clock or races an operation against a timer except the time-outs of     *)
(* goto (line 179) and waitForSelector (line 182) and the settling wait    *)
(* (line 213): only these are certain to settle.                           *)
(***************************************************************************)
\* the deadline of a run that is under way elapses
DeadlineElapses ==
    /\ ~deadline
    /\ \E r \in Runs : pc[r] \notin {"off", "start", "done"}
    /\ deadline' = TRUE
    /\ UNCHANGED <<objVars, runVars, sessionVars, siteLast, restVars>>

\* the steps of a run that are certain to happen: synchronous continuations
\* and operations with a time-out
TimedStep(r) ==
    \/ ScrapeProducts(r)
    \/ BuildSearchURLDone(r)
    \/ GotoOk(r) \/ GotoFail(r)
    \/ WaitForSelectorOk(r) \/ WaitForSelectorFail(r)
    \/ WaitForTimeoutOk(r) \/ WaitForTimeoutFail(r)

NextDeadline == Next \/ DeadlineElapses

SpecDeadline ==
    /\ Init /\ [][NextDeadline]_vars
    /\ WF_vars(DeadlineElapses)
    /\ \A r \in Runs : WF_vars(TimedStep(r))

(***************************************************************************)
(* handler (lines 5-101).                                                  *)
(***************************************************************************)
DefaultMinPrice == 100

DefaultMaxPrice == 500

DefaultMinOrderCount == 50

\* lines 13-17: the defaults of the destructuring
handlerDefaults ==
    [searchTerm |-> <<"s", "m", "a", "r", "t", "p", "h", "o", "n", "e">>,
     minPrice |-> DefaultMinPrice, maxPrice |-> DefaultMaxPrice,
     minOrderCount |-> DefaultMinOrderCount, maxPages |-> DefaultMaxPages]

\* lines 12-18: a default replaces a field that is undefined (absent), not null
Destructure(body) ==
    [f \in DOMAIN handlerDefaults |->
        IF f \in DOMAIN body THEN body[f] ELSE handlerDefaults[f]]

EmptyBody == [f \in {} |-> Null]

\* request bodies
Bodies ==
    {EmptyBody} \cup {[minOrderCount |-> n] : n \in {Null, 0, 60}}
      \cup {[searchTerm |-> <<"t", "v">>, minPrice |-> Null, maxPrice |-> 1,
             minOrderCount |-> 50, maxPages |-> 1]}

Requests ==
    [method : {"GET", "POST"}, hasBody : {TRUE}, body : Bodies]
      \cup [method : {"GET", "POST"}, hasBody : {FALSE}, body : {EmptyBody}]

Response(status, error, details, result) ==
    [status |-> status, error |-> error, details |-> details,
     total_products |-> Len(result), products |-> result]

\* line 8 / line 93 / lines 96-99: res.status(..).json(..)
Respond(r) ==
    /\ responses' = Append(responses, r)
    /\ hpc' = "done"

\* lines 94-100: the catch block answers 500; there is no finally block
HandlerCatch(op) ==
    /\ Respond(Response(500, "Scraping failed", op, <<>>))
    /\ UNCHANGED <<req, hopts, hLaunched, hCloseCalls, hClosed, hProducts, hThrown>>
    /\ UNCHANGED <<objVars, runVars, sessionVars, siteLast, deadline, extraction,
                 pureVars>>

\* an awaited operation of the try block resolves and the next one is issued
HandlerAdvance(from, to) ==
    /\ hpc = from
    /\ hpc' = to
    /\ UNCHANGED <<req, hopts, hCloseCalls, hClosed, hProducts, responses, hThrown>>
    /\ UNCHANGED <<objVars, runVars, sessionVars, siteLast, deadline, extraction,
                 pureVars>>

\* lines 7-24: the method check, the destructuring of req.body (outside the
\* try statement) and the first await, chromium.executablePath()
HandlerStart ==
    /\ hpc = "start"
    /\ IF req.method # "POST"
       THEN /\ Respond(Response(405, "Method Not Allowed", "", <<>>))
            /\ UNCHANGED <<hopts, hThrown>>
       ELSE IF ~req.hasBody
       THEN /\ hThrown' = TRUE
            /\ hpc' = "done"
            /\ UNCHANGED <<hopts, responses>>
       ELSE /\ hopts' = Destructure(req.body)
            /\ hpc' = "executablePath"
            /\ UNCHANGED <<responses, hThrown>>
    /\ UNCHANGED <<req, hLaunched, hCloseCalls, hClosed, hProducts>>
    /\ UNCHANGED <<objVars, runVars, sessionVars, siteLast, deadline, extraction,
                 pureVars>>

\* lines 21-26
HExecutablePathOk == HandlerAdvance("executablePath", "launch") /\ UNCHANGED hLaunched

HExecutablePathFail == hpc = "executablePath" /\ HandlerCatch("executablePath")

\* lines 21-28: launch resolves; browser.newPage() is issued
HLaunchOk == HandlerAdvance("launch", "newPage") /\ hLaunched' = TRUE

HLaunchFail == hpc = "launch" /\ HandlerCatch("launch")

\* lines 28-44: the page exists; the URL is built and page.goto is issued
HNewPageOk == HandlerAdvance("newPage", "goto") /\ UNCHANGED hLaunched

HNewPageFail == hpc = "newPage" /\ HandlerCatch("newPage")

\* lines 41-47: page.evaluate is issued
HGotoOk == HandlerAdvance("goto", "evaluate") /\ UNCHANGED hLaunched

HGotoFail == hpc = "goto" /\ HandlerCatch("goto")

\* lines 47-77: evaluate resolves with the records; browser.close() is issued
HEvaluateOk ==
    /\ hpc = "evaluate"
    /\ \E dom \in DomsUpTo(MaxItems) :
          hProducts' = EvaluateHandler(dom, hopts.minOrderCount)
    /\ hCloseCalls' = hCloseCalls + 1
    /\ hpc' = "close"
    /\ UNCHANGED <<req, hopts, hLaunched, hClosed, responses, hThrown>>
    /\ UNCHANGED <<objVars, runVars, sessionVars, siteLast, deadline, extraction,
                 pureVars>>

HEvaluateFail == hpc = "evaluate" /\ HandlerCatch("evaluate")

\* lines 77-93: close resolves; the report is sent with status 200
HCloseOk ==
    /\ hpc = "close"
    /\ hClosed' = TRUE
    /\ Respond(Response(200, "", "", hProducts))
    /\ UNCHANGED <<req, hopts, hLaunched, hCloseCalls, hProducts, hThrown>>
    /\ UNCHANGED <<objVars, runVars, sessionVars, siteLast, deadline, extraction,
                 pureVars>>

HCloseFail == hpc = "close" /\ HandlerCatch("close")

NextHandler ==
    \/ HandlerStart
    \/ HExecutablePathOk \/ HExecutablePathFail
    \/ HLaunchOk \/ HLaunchFail
    \/ HNewPageOk \/ HNewPageFail
    \/ HGotoOk \/ HGotoFail
    \/ HEvaluateOk \/ HEvaluateFail
    \/ HCloseOk \/ HCloseFail

\* no scraper object is in use
ScraperIdle ==
    /\ InitCommon
    /\ options = [o \in Objects |-> defaultOptions]
    /\ pc = [r \in Runs |-> "off"]
    /\ obj = [r \in Runs |-> r]
    /\ siteLast = 1

\* one invocation of the handler with any request
InitHandler ==
    /\ ScraperIdle
    /\ hpc = "start"
    /\ req \in Requests
    /\ HandlerFresh
    /\ extraction = NoExtraction
    /\ PureIdle

SpecHandler == InitHandler /\ [][NextHandler]_vars

(***************************************************************************)
(* One Extract cycle on its own: the page.evaluate callbacks of the class  *)
(* and of the handler applied to any page and threshold.                   *)
(***************************************************************************)
MinOrderCounts == {Null, 0, 50, 60}

\* lines 185-206 on extraction.dom with options.minOrderCount
ExtractByScraper ==
    /\ extraction.by = "none"
    /\ extraction' = [extraction EXCEPT
           !.by = "scraper",
           !.out = EvaluateScraper(extraction.dom, extraction.minOrderCount)]
    /\ UNCHANGED <<objVars, runVars, sessionVars, siteLast, deadline, handlerVars,
                 pureVars>>

\* lines 47-74 on extraction.dom with options.minOrderCount
ExtractByHandler ==
    /\ extraction.by = "none"
    /\ extraction' = [extraction EXCEPT
           !.by = "handler",
           !.out = EvaluateHandler(extraction.dom, extraction.minOrderCount)]
    /\ UNCHANGED <<objVars, runVars, sessionVars, siteLast, deadline, handlerVars,
                 pureVars>>

NextExtract == ExtractByScraper \/ ExtractByHandler

InitExtract ==
    /\ ScraperIdle
    /\ hpc = "off"
    /\ req = NoRequest
    /\ HandlerFresh
    /\ extraction \in [dom : DomsUpTo(MaxItems), minOrderCount : MinOrderCounts,
                       by : {"none"}, out : {<<>>}]
    /\ PureIdle

SpecExtract == InitExtract /\ [][NextExtract]_vars

\* every awaited browser operation eventually settles
LiveSpec == Spec /\ \A r \in Runs : WF_vars(RunStep(r))

(***************************************************************************)
(* Properties of one run of scrapeProducts.                                *)
(***************************************************************************)
MaxPagesOf(r) == options[obj[r]].maxPages

Returned(r) == pc[r] = "done" /\ thrown[r] = "none"

\* the records the completed Extract cycles of run r contributed, page by page
Contributed(r) ==
    Flatten([i \in 1..Len(seen[r]) |->
                EvaluateScraper(seen[r][i], options[obj[r]].minOrderCount)])

\* the page run r was processing when the caught rejection happened
FailPage(r) == IF pageNum[r] = 0 THEN 1 ELSE pageNum[r]

\* C1: with maxPages >= 1, a run issues at most maxPages page.evaluate calls
\* and at most maxPages - 1 clicks, the page counter is at most maxPages
\* whenever an evaluate is in flight, and the page counter never decreases.
C1_PaginationBounded ==
    /\ [](\A r \in Runs :
            MaxPagesOf(r) >= 1 =>
                /\ extracts[r] <= MaxPagesOf(r)
                /\ clicks[r] <= MaxPagesOf(r) - 1
                /\ (pc[r] = "evaluate" => pageNum[r] \in 1..MaxPagesOf(r)))
    /\ [][\A r \in Runs : pageNum'[r] >= pageNum[r]]_vars

C1_Witness ==
    \E r \in Runs :
        /\ pc[r] = "done" /\ MaxPagesOf(r) = 3
        /\ extracts[r] = 3 /\ clicks[r] = 2 /\ pageNum[r] = 3

\* C2: whenever a run has ended and its launch had resolved, close was invoked
\* exactly once on the session it launched.
C2_CloseExactlyOnce ==
    \A r \in Runs : (pc[r] = "done" /\ launched[r]) => closeCalls[r] = 1

\* C3 as claimed: after a rejection of goto, waitForSelector, evaluate or click
\* while page k was being processed (the counter is k; k = 1 before the loop) the
\* value returned is the concatenation of the records of pages 1..k-1, and the
\* session is closed.
C3_PartialResultAsClaimed ==
    \A r \in Runs :
        (Returned(r) /\ caught[r] \in {"goto", "waitForSelector", "evaluate", "click"}) =>
            /\ Len(seen[r]) >= FailPage(r) - 1
            /\ products[r] =
                 Flatten([i \in 1..(FailPage(r) - 1) |->
                            EvaluateScraper(seen[r][i], options[obj[r]].minOrderCount)])
            /\ closed[r]

\* C3 amended: after a caught rejection while page k was being processed no
\* further evaluate or click is issued, only a rejection of close can reach the
\* caller, and a value that is returned is the concatenation, in order, of the
\* records of every Extract cycle completed before the rejection: pages 1..k-1
\* when goto, waitForSelector or evaluate rejected, pages 1..k when the
\* next-page lookup, the click or the settling wait rejected; close was invoked
\* once and had resolved before the return.
C3_PartialResult ==
    \A r \in Runs :
        (pc[r] \in {"close", "done"} /\ caught[r] # "none") =>
            /\ thrown[r] \in {"none", "close"}
            /\ Len(seen[r]) =
                 IF caught[r] \in {"goto", "waitForSelector", "evaluate"}
                 THEN FailPage(r) - 1 ELSE FailPage(r)
            /\ extracts[r] = Len(seen[r]) + (IF caught[r] = "evaluate" THEN 1 ELSE 0)
            /\ clicks[r] = pageNum[r] - (IF caught[r] \in {"click", "waitForTimeout"} THEN 0 ELSE 1)
                  \/ pageNum[r] = 0
            /\ products[r] = Contributed(r)
            /\ closeCalls[r] = 1
            /\ Returned(r) => closed[r]

C3_Witness ==
    \E r \in Runs :
        /\ Returned(r) /\ caught[r] = "click" /\ pageNum[r] = 2
        /\ Len(seen[r]) = 2 /\ Len(products[r]) = 2 /\ closed[r]

\* C4 as claimed: every run ends, and when the loop is left the page counter
\* exceeds maxPages, or the page has no next-page control, or an error occurred.
C4_LoopExitAsClaimed ==
    /\ \A r \in Runs : (pc[r] = "start") ~> (pc[r] = "done")
    /\ [](\A r \in Runs :
            exit[r] # "none" =>
                \/ pageNum[r] > MaxPagesOf(r)
                \/ ~nextBtn[r]
                \/ caught[r] # "none")

\* C4 amended: when every awaited operation settles, every run ends (it
\* returns, or rejects when initialize or close rejected), and when the loop is
\* left the page counter has reached maxPages (pageNum >= maxPages; it exceeds
\* maxPages only when maxPages < 1), or the page has no next-page control, or
\* an error occurred.
C4_LoopExit ==
    /\ \A r \in Runs : (pc[r] = "start") ~> (pc[r] = "done")
    /\ [](\A r \in Runs :
            /\ exit[r] # "none" =>
                \/ pageNum[r] >= MaxPagesOf(r)
                \/ ~nextBtn[r]
                \/ caught[r] # "none"
            /\ (pc[r] \in {"close", "done"} /\ thrown[r] \in {"none", "close"})
                  => exit[r] # "none")

C4_Witness ==
    \E r \in Runs :
        /\ Returned(r) /\ exit[r] = "maxPages" /\ nextBtn[r]
        /\ pageNum[r] = MaxPagesOf(r) /\ MaxPagesOf(r) = 2

\* C5: in a failure-free run with maxPages >= 1 the pages visited are
\* min(maxPages, k), k the first page without a next-page control; a click is
\* in flight only after a page with a next-page control and a counter below
\* maxPages; when k <= maxPages the run ends by the no-next-control branch.
C5_PagesVisited ==
    \A r \in Runs :
        /\ pc[r] = "click" => (nextBtn[r] /\ pageNum[r] < MaxPagesOf(r))
        /\ (Returned(r) /\ caught[r] = "none" /\ MaxPagesOf(r) >= 1) =>
              /\ Len(seen[r]) = Min(MaxPagesOf(r), siteLast)
              /\ extracts[r] = Len(seen[r])
              /\ clicks[r] = Len(seen[r]) - 1
              /\ pageNum[r] = Len(seen[r])
              /\ siteLast <= MaxPagesOf(r) => (exit[r] = "noNext" /\ ~nextBtn[r])
              /\ siteLast > MaxPagesOf(r) => (exit[r] = "maxPages" /\ nextBtn[r])

C5_Witness ==
    \E r \in Runs :
        /\ Returned(r) /\ caught[r] = "none"
        /\ MaxPagesOf(r) = 3 /\ siteLast = 3
        /\ Len(seen[r]) = 3 /\ exit[r] = "noNext"

\* C8: a run on a SearchSpec that violates the data-model invariants launches
\* no session and issues no operation: it ends with a BuildError.
C8_InvalidSpecRejected ==
    \A r \in Runs :
        ~ValidSpec(options[obj[r]]) =>
            /\ pc[r] \in {"off", "start", "done"}
            /\ ~launched[r]
            /\ pc[r] = "done" => thrown[r] = "BuildError"

(***************************************************************************)
(* Properties of an Extract cycle and of the handler.                      *)
(***************************************************************************)
\* the order count of a catalog item: the digits of its order-count text ('0'
\* when the element is absent) read as a decimal number, 0 when there is none
DerivedOrderCount(el) ==
    LET text == IF el.orders.present THEN el.orders.innerText ELSE Zero
        digits == SelectSeq(text, IsDigit)
    IN  IF digits = <<>> THEN 0 ELSE DecimalValue(digits)

ScenarioA == <<Item10, Item60, Item200>>

\* C6: the records an Extract cycle contributes are the records, in document
\* order, of exactly the items whose order count is >= minOrderCount when
\* minOrderCount is present, and of all items when it is absent; the page with
\* order counts 10, 60, 200 and minOrderCount 50 gives the records of 60 and 200.
C6_FilterExact ==
    extraction.by # "none" =>
        LET min == extraction.minOrderCount
            Passes(el) == min = Null \/ DerivedOrderCount(el) >= min
        IN  /\ extraction.out = RecordsOf(SelectSeq(extraction.dom, Passes))
            /\ (extraction.dom = ScenarioA /\ min = 50) =>
                  extraction.out = <<RecordOf(Item60), RecordOf(Item200)>>

C6_Witness ==
    /\ extraction.by = "scraper"
    /\ extraction.dom = ScenarioA /\ extraction.minOrderCount = 50
    /\ Len(extraction.out) = 2
    /\ extraction.out[1].orderCount = <<"6", "0", " ", "s", "o", "l", "d">>

\* C7: whenever the handler has ended after its launch resolved, browser.close
\* was invoked (exactly once), whatever was answered.
C7_HandlerAlwaysCloses ==
    (hpc = "done" /\ hLaunched) => hCloseCalls = 1

(***************************************************************************)
(* Properties of concurrent runs and of the deadline.                      *)
(***************************************************************************)
\* C9: concurrent runs never share a session: no run issues an operation on a
\* session another run launched, no session has close invoked twice, and a
\* run that returned has had close invoked once on the session it launched.
C9_SessionsNotShared ==
    \A r \in Runs :
        /\ ~foreign[r]
        /\ closeCalls[r] <= 1
        /\ Returned(r) => closeCalls[r] = 1

InFlightOps == {"goto", "evaluate", "click"}

\* C10: once the deadline has elapsed while a goto, an evaluate or a click of a
\* run is in flight, either that operation settles or close is eventually
\* invoked on the run's session: no run waits forever on an in-flight
\* operation with its session left open.
C10_DeadlineCloses ==
    \A r \in Runs :
        (deadline /\ pc[r] \in InFlightOps)
            ~> (pc[r] \notin InFlightOps \/ closeCalls[r] > 0)

(***************************************************************************)
(* The search URL: buildSearchURL (lines 154-168) and lines 30-38 of the   *)
(* handler.  A text is a sequence of characters; EAcute stands for the one *)
(* character U+00E9.                                                       *)
(***************************************************************************)
MaxTermLen == 2

EAcute == "U+00E9"

Letters ==
    {"a", "b", "c", "d", "e", "f", "g", "h", "i", "j", "k", "l", "m", "n",
    "o", "p", "q", "r", "s", "t", "u", "v", "w", "x", "y", "z", "A", "B",
    "C", "D", "E", "F", "G", "H", "I", "J", "K", "L", "M", "N", "O", "P",
    "Q", "R", "S", "T", "U", "V", "W", "X", "Y", "Z"}

AlphaNumerics == Letters \cup {Digits[i] : i \in 1..10}

\* the characters of the search terms
TermChars == {"a", " ", "%", "&", "!", EAcute}

\* the characters that are escaped by one of the two encoders
Escapable == {" ", "%", "&", "!", "=", "+", "/", ":", "?", EAcute}

\* the bytes of the UTF-8 encoding of a character, two hexadecimal digits each
Utf8(c) ==
    CASE c = " " -> << <<"2", "0">> >>
      [] c = "!" -> << <<"2", "1">> >>
      [] c = "%" -> << <<"2", "5">> >>
      [] c = "&" -> << <<"2", "6">> >>
      [] c = "+" -> << <<"2", "B">> >>
      [] c = "/" -> << <<"2", "F">> >>
      [] c = ":" -> << <<"3", "A">> >>
      [] c = "=" -> << <<"3", "D">> >>
      [] c = "?" -> << <<"3", "F">> >>
      [] c = EAcute -> << <<"C", "3">>, <<"A", "9">> >>

\* %XX for every byte of the character
PercentEncode(c) == Flatten([i \in 1..Len(Utf8(c)) |-> <<"%">> \o Utf8(c)[i]])

\* the characters encodeURIComponent leaves as they are
UriUnreserved == AlphaNumerics \cup {"-", "_", ".", "!", "~", "*", "'", "(", ")"}

\* the characters the serializer of URLSearchParams leaves as they are
FormSafe == AlphaNumerics \cup {"*", "-", ".", "_"}

\* encodeURIComponent(t), lines 33 and 158
EncodeURIComponent(t) ==
    Flatten([i \in 1..Len(t) |->
        IF t[i] \in UriUnreserved THEN <<t[i]>> ELSE PercentEncode(t[i])])

\* the application/x-www-form-urlencoded serializer of params.toString()
FormSerialize(t) ==
    Flatten([i \in 1..Len(t) |->
        IF t[i] \in FormSafe THEN <<t[i]>>
        ELSE IF t[i] = " " THEN <<"+">>
        ELSE PercentEncode(t[i])])

DigitChar(d) == Digits[d + 1]

\* minPrice.toString() and the string conversion of params.append, for n >= 0
RECURSIVE NumberToString(_)
NumberToString(n) ==
    IF n < 10 THEN <<DigitChar(n)>>
    ELSE NumberToString(n \div 10) \o <<DigitChar(n % 10)>>

\* params.toString(): name=value pairs joined by &
RECURSIVE ParamsToString(_)
ParamsToString(params) ==
    IF params = <<>> THEN <<>>
    ELSE LET first == FormSerialize(Head(params).name) \o <<"=">>
                          \o FormSerialize(Head(params).value)
         IN  IF Tail(params) = <<>> THEN first
             ELSE first \o <<"&">> \o ParamsToString(Tail(params))

baseURL ==
    <<"h", "t", "t", "p", "s", ":", "/", "/", "w", "w", "w", ".", "a", "l", "i", "e", "x", "p", "r", "e", "s", "s", ".", "c", "o", "m", "/", "w",
    "h", "o", "l", "e", "s", "a", "l", "e">>

SearchTextName == <<"S", "e", "a", "r", "c", "h", "T", "e", "x", "t">>

MinPriceName == <<"m", "i", "n", "P", "r", "i", "c", "e">>

MaxPriceName == <<"m", "a", "x", "P", "r", "i", "c", "e">>

\* if (minPrice) params.append(name, minPrice), lines 35-36 and 160-165
AppendPrice(params, name, price) ==
    IF Truthy(price) THEN Append(params, [name |-> name, value |-> NumberToString(price)])
    ELSE params

\* lines 154-168
BuildSearchURL(o) ==
    LET params0 == <<[name |-> SearchTextName, value |-> EncodeURIComponent(o.searchTerm)]>>
        params1 == AppendPrice(params0, MinPriceName, o.minPrice)
        params2 == AppendPrice(params1, MaxPriceName, o.maxPrice)
    IN  baseURL \o <<"?">> \o ParamsToString(params2)

\* lines 31-38, on the destructured searchTerm, minPrice and maxPrice
HandlerSearchURL(searchTerm, minPrice, maxPrice) ==
    LET params0 == <<[name |-> SearchTextName, value |-> EncodeURIComponent(searchTerm)]>>
        params1 == AppendPrice(params0, MinPriceName, minPrice)
        params2 == AppendPrice(params1, MaxPriceName, maxPrice)
    IN  baseURL \o <<"?">> \o ParamsToString(params2)

TermsUpTo(n) == UNION {[1..k -> TermChars] : k \in 0..n}

\* the options the URL is built from
URLOptions == [searchTerm : TermsUpTo(MaxTermLen), minPrice : {Null, 0, 2},
               maxPrice : {Null, 0, 1}]

\* buildSearchURL() on build.options
BuildByScraper ==
    /\ build.by = "none"
    /\ build' = [build EXCEPT !.by = "scraper", !.url = BuildSearchURL(build.options)]
    /\ UNCHANGED <<objVars, runVars, sessionVars, siteLast, deadline, handlerVars,
                 extraction, derive, exporting, net>>

\* lines 31-38 on build.options
BuildByHandler ==
    /\ build.by = "none"
    /\ build' = [build EXCEPT
           !.by = "handler",
           !.url = HandlerSearchURL(build.options.searchTerm, build.options.minPrice,
                                    build.options.maxPrice)]
    /\ UNCHANGED <<objVars, runVars, sessionVars, siteLast, deadline, handlerVars,
                 extraction, derive, exporting, net>>

NextURL == BuildByScraper \/ BuildByHandler

InitURL ==
    /\ ScraperIdle
    /\ hpc = "off"
    /\ req = NoRequest
    /\ HandlerFresh
    /\ extraction = NoExtraction
    /\ build \in [options : URLOptions, by : {"none"}, url : {<<>>}]
    /\ derive = NoDerive
    /\ exporting = NoExport
    /\ net = NoNet

SpecURL == InitURL /\ [][NextURL]_vars

(***************************************************************************)
(* Reading a URL back: the query of a URL, split and decoded as a server   *)
(* decodes it (once).                                                      *)
(***************************************************************************)
IsPrefix(s, t) == Len(s) <= Len(t) /\ SubSeq(t, 1, Len(s)) = s

RECURSIVE SplitOn(_, _)
SplitOn(t, sep) ==
    IF \A i \in 1..Len(t) : t[i] # sep THEN <<t>>
    ELSE LET k == CHOOSE i \in 1..Len(t) :
                      t[i] = sep /\ \A j \in 1..(i - 1) : t[j] # sep
         IN  <<SubSeq(t, 1, k - 1)>> \o SplitOn(SubSeq(t, k + 1, Len(t)), sep)

\* + is a space, %XX.. is the character with these bytes
RECURSIVE FormDecode(_)
FormDecode(t) ==
    IF t = <<>> THEN <<>>
    ELSE IF Head(t) = "+" THEN <<" ">> \o FormDecode(Tail(t))
    ELSE IF \E c \in Escapable : IsPrefix(PercentEncode(c), t)
         THEN LET c == CHOOSE x \in Escapable : IsPrefix(PercentEncode(x), t)
              IN  <<c>> \o FormDecode(SubSeq(t, Len(PercentEncode(c)) + 1, Len(t)))
    ELSE <<Head(t)>> \o FormDecode(Tail(t))

\* what follows the first ? of the URL
QueryOf(url) ==
    LET k == CHOOSE i \in 1..Len(url) : url[i] = "?" /\ \A j \in 1..(i - 1) : url[j] # "?"
    IN  SubSeq(url, k + 1, Len(url))

\* the decoded name/value pairs of the URL, in order
ParseQuery(url) ==
    LET pairs == SplitOn(QueryOf(url), "&")
    IN  [i \in 1..Len(pairs) |->
            LET nv == SplitOn(pairs[i], "=")
            IN  [name |-> FormDecode(nv[1]),
                 value |-> IF Len(nv) > 1 THEN FormDecode(nv[2]) ELSE <<>>]]

\* the values of the parameters of that name
ValuesOf(url, name) ==
    LET q == ParseQuery(url)
    IN  {q[i].value : i \in {j \in 1..Len(q) : q[j].name = name}}

\* C11 (as claimed): the URL built is a function of the options that has a
\* minPrice (maxPrice) parameter exactly when that bound is present, that is
\* not Null, and no parameter of the URL is empty for an absent bound.
C11_PriceParameters ==
    build.by \in {"scraper", "handler"} =>
        LET o == build.options
        IN  /\ (ValuesOf(build.url, MinPriceName) # {}) <=> (o.minPrice # Null)
            /\ (ValuesOf(build.url, MaxPriceName) # {}) <=> (o.maxPrice # Null)
            /\ <<>> \notin ValuesOf(build.url, MinPriceName)
            /\ <<>> \notin ValuesOf(build.url, MaxPriceName)

\* C12 (as claimed): decoding the SearchText parameter of the URL built once
\* gives the search term back, whatever characters it has.
C12_SearchTextRoundTrip ==
    build.by \in {"scraper", "handler"} =>
        ValuesOf(build.url, SearchTextName) = {build.options.searchTerm}

(***************************************************************************)
(* The order count derived from the text of one order-count element:       *)
(* lines 190-191 with 202-203 in the class, lines 55-57 in the handler.    *)
(***************************************************************************)
MaxTextLen == 3

\* the characters of the order-count texts
OrderChars == {"0", "1", "-", ",", " ", "N"}

TextsUpTo(n) == UNION {[1..k -> OrderChars] : k \in 0..n}

OrdersExample == <<"1", ",", "2", "3", "4", " ", "o", "r", "d", "e", "r", "s">>

\* the order-count elements: none, or one with an inner text
OrderElements ==
    {NoEl} \cup {El(t) : t \in TextsUpTo(MaxTextLen) \cup {OrdersExample, NA}}

\* lines 190-191 and 202-203 on derive.el
DeriveByScraper ==
    /\ derive.by = "none"
    /\ derive' = [derive EXCEPT
           !.by = "scraper",
           !.count = ScraperOrderCount([orderCount |-> TextOr(derive.el, Zero)])]
    /\ UNCHANGED <<objVars, runVars, sessionVars, siteLast, deadline, handlerVars,
                 extraction, build, exporting, net>>

\* lines 55-57 on derive.el
DeriveByHandler ==
    /\ derive.by = "none"
    /\ derive' = [derive EXCEPT
           !.by = "handler",
           !.count = HandlerOrderCount([orders |-> derive.el])]
    /\ UNCHANGED <<objVars, runVars, sessionVars, siteLast, deadline, handlerVars,
                 extraction, build, exporting, net>>

NextDerive == DeriveByScraper \/ DeriveByHandler

InitDerive ==
    /\ ScraperIdle
    /\ hpc = "off"
    /\ req = NoRequest
    /\ HandlerFresh
    /\ extraction = NoExtraction
    /\ build = NoBuild
    /\ derive \in [el : OrderElements, by : {"none"}, count : {0}]
    /\ exporting = NoExport
    /\ net = NoNet

SpecDerive == InitDerive /\ [][NextDerive]_vars

\* the integer a text of digits denotes, read from the left; 0 for no digit
RECURSIVE IntegerOf(_, _)
IntegerOf(digits, acc) ==
    IF digits = <<>> THEN acc
    ELSE IntegerOf(Tail(digits), 10 * acc + DigitVal(Head(digits)))

\* C13: the order count derived from a raw order-count text is the integer
\* formed by the decimal digits of the text, in order, every other character
\* dropped, and 0 when the text has no digit or there is no order-count
\* element: "1,234 orders" gives 1234, "" gives 0, "N/A" gives 0.  It is a
\* natural number, so never negative and never NaN.
C13_OrderCountDerived ==
    derive.by \in {"scraper", "handler"} =>
        /\ derive.count \in Nat
        /\ derive.el.present =>
               derive.count = IntegerOf(SelectSeq(derive.el.innerText, IsDigit), 0)
        /\ ~derive.el.present => derive.count = 0
        /\ derive.el = El(OrdersExample) => derive.count = 1234
        /\ derive.el \in {El(<<>>), El(NA)} => derive.count = 0

\* "1,234 orders" has been read by the class
C13_Witness ==
    /\ derive.by = "scraper"
    /\ derive.el = El(OrdersExample)
    /\ derive.count = 1234

(***************************************************************************)
(* Extraction from items with absent sub-elements (lines 64-72, 186-201).  *)
(***************************************************************************)
SubFields == {"id", "title", "price", "orders", "rating", "link"}

\* the item of Item10's shape (60 orders) whose sub-elements in `absent` are
\* missing
ItemWithout(absent) ==
    [f \in SubFields |->
        IF f \in absent THEN NoEl
        ELSE IF f = "orders" THEN Item60.orders
        ELSE Item10[f]]

AbsenceItems == {ItemWithout(absent) : absent \in SUBSET SubFields}

\* an item alone on the page, and the same item between two others
AbsenceDoms ==
    {<<item>> : item \in AbsenceItems}
        \cup {<<Item10, item, Item60>> : item \in AbsenceItems}

InitSentinel ==
    /\ ScraperIdle
    /\ hpc = "off"
    /\ req = NoRequest
    /\ HandlerFresh
    /\ extraction \in [dom : AbsenceDoms, minOrderCount : {Null, DefaultMinOrderCount},
                       by : {"none"}, out : {<<>>}]
    /\ PureIdle

SpecSentinel == InitSentinel /\ [][NextExtract]_vars

RecordFields == {"id", "title", "price", "orderCount", "rating", "link"}

\* rec has every field, and the sentinel in every field whose source is absent
\* in el
HasSentinels(el, rec) ==
    /\ DOMAIN rec = RecordFields
    /\ \A f \in RecordFields : rec[f] \in Seq(STRING)
    /\ ~el.id.present => rec.id = NA
    /\ ~el.title.present => rec.title = NA
    /\ ~el.price.present => rec.price = NA
    /\ ~el.orders.present => rec.orderCount = Zero
    /\ ~el.rating.present => rec.rating = NA
    /\ ~el.link.present => rec.link = NA

\* C14: whatever sub-elements (and id attribute) of an item are absent, an
\* Extract cycle does not fail and gives, without a threshold, one record per
\* item of the page in order, each with all six fields and the sentinel ('N/A',
\* '0' for the order-count text) in every field whose source is absent; with a
\* threshold every record returned is such a record of an item of the page.
C14_SentinelsForAbsent ==
    extraction.by \in {"scraper", "handler"} =>
        LET dom == extraction.dom
            out == extraction.out
        IN  /\ extraction.minOrderCount = Null =>
                   /\ Len(out) = Len(dom)
                   /\ \A i \in 1..Len(dom) : HasSentinels(dom[i], out[i])
            /\ \A i \in 1..Len(out) :
                   \E j \in 1..Len(dom) : HasSentinels(dom[j], out[i])

\* the handler has extracted the item that has nothing
C14_Witness ==
    /\ extraction.by = "handler"
    /\ extraction.dom = <<Item10, ItemWithout(SubFields), Item60>>
    /\ extraction.minOrderCount = Null
    /\ extraction.out[2] = [id |-> NA, title |-> NA, price |-> NA, orderCount |-> Zero,
                            rating |-> NA, link |-> NA]

(***************************************************************************)
(* exportToJson (lines 227-251), called by run (lines 253-256) with the    *)
(* value scrapeProducts returned.                                          *)
(***************************************************************************)
\* a report whose metadata count nothing
JsonOutputUncounted(o, prods) ==
    [metadata |-> [search_term |-> o.searchTerm, min_price |-> o.minPrice,
                   max_price |-> o.maxPrice, min_order_count |-> o.minOrderCount,
                   total_products |-> 0],
     products |-> prods]

\* lines 228-238; scraped_at is left out
JsonOutput(o, prods) ==
    [metadata |-> [search_term |-> o.searchTerm, min_price |-> o.minPrice,
                   max_price |-> o.maxPrice, min_order_count |-> o.minOrderCount,
                   total_products |-> Len(prods)],
     products |-> prods]

\* the options of main (lines 261-268) and the defaults
ExportOptions ==
    {defaultOptions,
     MergeOptions([searchTerm |-> <<"t", "v">>, minPrice |-> DefaultMinPrice,
                   maxPrice |-> DefaultMaxPrice, minOrderCount |-> DefaultMinOrderCount,
                   maxPages |-> DefaultMaxPages])}

\* values scrapeProducts can return: the records kept from a page
ReturnedProducts ==
    {EvaluateScraper(dom, minOrderCount) :
        dom \in DomsUpTo(MaxItems), minOrderCount \in MinOrderCounts}

\* lines 227-244: the report is assembled and fs.writeFile is called
ExportToJson ==
    /\ exporting.pc = "start"
    /\ exporting' = [exporting EXCEPT
           !.pc = "writeFile",
           !.jsonOutput = JsonOutput(exporting.options, exporting.products)]
    /\ UNCHANGED <<objVars, runVars, sessionVars, siteLast, deadline, handlerVars,
                 extraction, build, derive, net>>

\* lines 241-245 and 250: the write resolved
WriteFileOk ==
    /\ exporting.pc = "writeFile"
    /\ exporting' = [exporting EXCEPT
           !.pc = "done",
           !.written = TRUE,
           !.returned = TRUE,
           !.result = exporting.jsonOutput]
    /\ UNCHANGED <<objVars, runVars, sessionVars, siteLast, deadline, handlerVars,
                 extraction, build, derive, net>>

\* lines 246-250: the write (or JSON.stringify) threw and the catch logged it
WriteFileFail ==
    /\ exporting.pc = "writeFile"
    /\ exporting' = [exporting EXCEPT
           !.pc = "done",
           !.returned = TRUE,
           !.result = exporting.jsonOutput]
    /\ UNCHANGED <<objVars, runVars, sessionVars, siteLast, deadline, handlerVars,
                 extraction, build, derive, net>>

NextExport == ExportToJson \/ WriteFileOk \/ WriteFileFail

InitExport ==
    /\ ScraperIdle
    /\ hpc = "off"
    /\ req = NoRequest
    /\ HandlerFresh
    /\ extraction = NoExtraction
    /\ build = NoBuild
    /\ derive = NoDerive
    /\ exporting \in [options : ExportOptions, products : ReturnedProducts,
                      pc : {"start"}, jsonOutput : {<<>>}, written : {FALSE},
                      returned : {FALSE}, result : {<<>>}]
    /\ net = NoNet

SpecExport == InitExport /\ [][NextExport]_vars

\* C15: whatever sequence of records exportToJson is given, and whether the
\* write of the file succeeded or failed, the call ends by returning a report
\* whose products are that sequence, in that order, and whose
\* metadata.total_products is the number of its records.
C15_ReportAssembled ==
    exporting.pc = "done" =>
        /\ exporting.returned
        /\ exporting.result.products = exporting.products
        /\ exporting.result.metadata.total_products = Len(exporting.products)

\* a report of two records was returned although the write failed
C15_Witness ==
    /\ exporting.pc = "done"
    /\ ~exporting.written
    /\ exporting.returned
    /\ Len(exporting.products) = 2
    /\ exporting.result.products = exporting.products

(***************************************************************************)
(* Request interception on the page of one run (lines 141-151).            *)
(***************************************************************************)
MaxRequests == 3

\* values of request.resourceType()
ResourceTypes == {"document", "stylesheet", "image", "font", "script", "xhr"}

\* line 144
blockedResources == {"image", "stylesheet", "font"}

\* a request the page has issued, before any listener has seen it
Intercepted(type) == [type |-> type, aborts |-> 0, continues |-> 0, overridden |-> FALSE]

\* a listener that aborts every request
AbortAll(request) == [request EXCEPT !.aborts = @ + 1]

\* lines 142-150: the listener on one request; continue() is given no overrides
OnRequest(request) ==
    IF request.type \in blockedResources
    THEN [request EXCEPT !.aborts = @ + 1]
    ELSE [request EXCEPT !.continues = @ + 1]

\* the 'request' event: every registered listener is called, in turn
RECURSIVE Emit(_, _)
Emit(request, listeners) ==
    IF listeners = 0 THEN request ELSE Emit(OnRequest(request), listeners - 1)

\* lines 141-142: setRequestInterception(true) resolved and page.on registered
\* the listener
InterceptionOn ==
    /\ net.pc = "setRequestInterception"
    /\ net' = [net EXCEPT
           !.pc = "ready",
           !.intercepting = TRUE,
           !.listeners = @ + 1]
    /\ UNCHANGED <<objVars, runVars, sessionVars, siteLast, deadline, handlerVars,
                 extraction, build, derive, exporting>>

\* line 141: setRequestInterception(true) rejected; initialize rejects and no
\* navigation follows
InterceptionRejected ==
    /\ net.pc = "setRequestInterception"
    /\ net' = [net EXCEPT !.pc = "failed"]
    /\ UNCHANGED <<objVars, runVars, sessionVars, siteLast, deadline, handlerVars,
                 extraction, build, derive, exporting>>

\* a navigation of lines 177 or 212 makes the page issue a request
RequestIssued ==
    /\ net.pc = "ready"
    /\ Len(net.requests) < MaxRequests
    /\ \E type \in ResourceTypes :
           net' = [net EXCEPT
               !.requests = Append(@, Emit(Intercepted(type), net.listeners))]
    /\ UNCHANGED <<objVars, runVars, sessionVars, siteLast, deadline, handlerVars,
                 extraction, build, derive, exporting>>

NextNet == InterceptionOn \/ InterceptionRejected \/ RequestIssued

InitNet ==
    /\ ScraperIdle
    /\ hpc = "off"
    /\ req = NoRequest
    /\ HandlerFresh
    /\ extraction = NoExtraction
    /\ build = NoBuild
    /\ derive = NoDerive
    /\ exporting = NoExport
    /\ net = [pc |-> "setRequestInterception", intercepting |-> FALSE,
              listeners |-> 0, requests |-> <<>>]

SpecNet == InitNet /\ [][NextNet]_vars

\* C16: every request the page issues under interception is resolved exactly
\* once: it is aborted (once, never continued) iff its resource type is image,
\* stylesheet or font, and continued (once, without overrides, never aborted)
\* otherwise.
C16_RequestsResolvedOnce ==
    \A i \in 1..Len(net.requests) :
        LET request == net.requests[i]
        IN  /\ net.intercepting
            /\ request.aborts + request.continues = 1
            /\ request.aborts = 1 <=> request.type \in {"image", "stylesheet", "font"}
            /\ request.continues = 1 <=> request.type \notin {"image", "stylesheet", "font"}
            /\ ~request.overridden

\* an image was aborted and a document continued
C16_Witness ==
    /\ \E i \in 1..Len(net.requests) :
           net.requests[i].type = "image" /\ net.requests[i].aborts = 1
    /\ \E i \in 1..Len(net.requests) :
           net.requests[i].type = "document" /\ net.requests[i].continues = 1

(***************************************************************************)
(* Properties of the accumulation buffer and of the order of the steps.    *)
(***************************************************************************)
\* C17: the buffer of a run only grows at its end: at every step its former
\* content is a prefix of its new content, and it always equals the
\* concatenation, in page order, of the records each completed Extract cycle
\* kept, in document order; nothing is reordered, removed or deduplicated, so
\* an item met on two visited pages is in the buffer twice.
C17_AppendOnly ==
    /\ [](\A r \in Runs : products[r] = Contributed(r))
    /\ [][\A r \in Runs : IsPrefix(products[r], products'[r])]_vars

\* the same item was extracted from two pages and is in the buffer twice
C17_Witness ==
    \E r \in Runs :
        /\ seen[r] = << <<Item60>>, <<Item60>> >>
        /\ products[r] = <<RecordOf(Item60), RecordOf(Item60)>>

\* C18: the steps of a run are ordered: waitForSelector is issued only when the
\* initial goto resolved and the Extract cycle of page 1 only when
\* waitForSelector resolved; every later Extract cycle is issued only in the
\* step in which a settling wait resolved, with the page counter incremented
\* by exactly 1 in that step; the settling wait is issued only when the click
\* resolved and a click only when the next-page lookup of the extracted page
\* resolved.  So, while the Extract cycle of page p is under way, p - 1 clicks
\* have been issued: exactly one Advance lies between consecutive cycles.
C18_AdvanceBetweenExtracts ==
    /\ [](\A r \in Runs :
            pc[r] \in {"evaluate", "query"} =>
                /\ pageNum[r] = extracts[r]
                /\ clicks[r] = extracts[r] - 1)
    /\ [][\A r \in Runs :
            /\ extracts'[r] # extracts[r] =>
                   /\ extracts'[r] = extracts[r] + 1
                   /\ pc'[r] = "evaluate"
                   /\ \/ /\ extracts[r] = 0
                         /\ pc[r] = "waitForSelector"
                         /\ pageNum'[r] = 1
                      \/ /\ extracts[r] >= 1
                         /\ pc[r] = "waitForTimeout"
                         /\ pageNum'[r] = pageNum[r] + 1
                         /\ clicks[r] = extracts[r]
            /\ pageNum'[r] # pageNum[r] =>
                   /\ pageNum'[r] = pageNum[r] + 1
                   /\ pc[r] \in {"waitForSelector", "waitForTimeout"}
            /\ (pc'[r] = "waitForSelector" /\ pc[r] # "waitForSelector") => pc[r] = "goto"
            /\ (pc'[r] = "waitForTimeout" /\ pc[r] # "waitForTimeout") => pc[r] = "click"
            /\ clicks'[r] # clicks[r] =>
                   /\ clicks'[r] = clicks[r] + 1
                   /\ pc[r] = "query"
                   /\ pc'[r] = "click"
                   /\ clicks[r] = extracts[r] - 1
      ]_vars

\* the Extract cycle of page 2 is under way after one click
C18_Witness ==
    \E r \in Runs :
        /\ pc[r] = "evaluate"
        /\ pageNum[r] = 2
        /\ extracts[r] = 2
        /\ clicks[r] = 1

(***************************************************************************)
(* Properties of the handler's answers and of the two extractions.         *)
(***************************************************************************)
\* C19 (as claimed): an invocation of the handler that has ended has sent
\* exactly one response, including a POST without a body, and none is ever
\* sent twice: 405 to a method other than POST, nothing launched; 200 only
\* with the session closed; 500 with 'Scraping failed' and a detail text when
\* an operation failed.
C19_ExactlyOneResponse ==
    /\ Len(responses) <= 1
    /\ hpc = "done" =>
           /\ Len(responses) = 1
           /\ req.method # "POST" => (responses[1].status = 405 /\ ~hLaunched)
           /\ req.method = "POST" => responses[1].status \in {200, 500}
           /\ responses[1].status = 200 => hClosed
           /\ responses[1].status = 500 =>
                  (responses[1].error = "Scraping failed" /\ responses[1].details # "")

\* C20: on the same page and with the same minOrderCount, the extraction of
\* the handler and the first Extract cycle of the class give the same records
\* in the same order, field by field (scraped_at aside): what either one
\* returned is what the other returns.
C20_ExtractionsAgree ==
    /\ extraction.by = "handler" =>
           extraction.out = EvaluateScraper(extraction.dom, extraction.minOrderCount)
    /\ extraction.by = "scraper" =>
           extraction.out = EvaluateHandler(extraction.dom, extraction.minOrderCount)

\* the handler kept the one item of three at its threshold, as the class does
C20_Witness ==
    /\ extraction.by = "handler"
    /\ extraction.dom = <<Item60, ItemBare, Item10>>
    /\ extraction.minOrderCount = 60
    /\ extraction.out = <<RecordOf(Item60)>>
    /\ extraction.out = EvaluateScraper(extraction.dom, extraction.minOrderCount)

====
